---- MODULE Spec2Model ----
(***************************************************************************)
(* Model of the As-Built Downloader: the request fulfillment orchestrator  *)
(* (main.py), the Layer engine (src/process_gis_files.py), the Document    *)
(* engine (src/process_as_built.py) and the record model (src/models.py).  *)
(*                                                                         *)
(* Representation.                                                         *)
(*  - A comma-separated text field is the sequence of its pieces: the text *)
(*    "Water,Storm" is <<"Water","Storm">>, the empty text is <<>>.        *)
(*  - A folder name is a base text followed by the numeric suffixes that   *)
(*    were appended with "_": "A" is <<"A">>, "A_1" is <<"A",1>>, the      *)
(*    empty name "" is <<"">> and "_1" is <<"",1>>.                        *)
(*  - A timestamp is the number of the run that wrote it; 0 is None.       *)
(***************************************************************************)
EXTENDS Integers, Sequences, FiniteSets, TLC

VARIABLES
    store,          \* the survey feature class: GlobalId -> row
    dirs,           \* folder names that exist under project_directory
    errors,         \* main.py errors: the error ledger of the running process
    error_counter,  \* main.py error_counter
    pc,             \* position of the process: idle, loop, exited, done, fatal, crashed
    queue,          \* surveyData keys not yet visited by the per-record loop
    surveyData,     \* main.py surveyData: the records fetched by this run
    runNo,          \* number of runs started so far (the clock of the model)
    sent,           \* messages handed to the mail service
    recorded,       \* number of errors recorded by the running process
    last,           \* what the most recent iteration of the per-record loop did
    runStart,       \* store, dirs and sent when the run started, and how the run before ended
    catalog,        \* models.py layer_dict and the three category lists
    utilities,      \* a requested-utilities text given to the Layer engine
    layers_list,    \* process_gis_files.py layers_list
    lpc,            \* ready / built: whether layers_list was computed
    faults,         \* failures of the environment injected so far
    rname,          \* folder text handed to the Output Folder Resolver
    rcalls,         \* the resolver calls made so far: what existed, what came back
    planAreaData,   \* process_as_built.py planAreaData: the ID column of the selected plan areas
    source_files,   \* names of the files that exist in the as-built source directory
    pdfCount,       \* process_as_built.py pdfCount
    missing_pdfs,   \* process_as_built.py missing_pdfs
    Status,         \* the Status column of Index.csv, row by row
    dpc,            \* off / ready / indexed: whether the copy loop and the manifest ran
    log_dir,        \* main.py log_dir: the runs whose log file is in the Logs directory
    plan_areas,     \* the plan areas that intersect the request polygon (selected_plan_areas)
    where_clause,   \* process_as_built.py where_clause: its terms, <<>> is the empty text
    data_rows,      \* process_as_built.py data: the rows the search cursor returned
    spc,            \* off / ready / selected: whether the plan areas were filtered
    fc_output_names, \* process_gis_files.py fc_output_names: the layers clipped and exported
    layer_fault,    \* the layer of the working set that fails in the layer loop, and how
    config_emails,  \* config.json approved_emails: the entries as configured
    membership      \* the email tested against config_emails, and the outcome

vars == <<store, dirs, errors, error_counter, pc, queue, surveyData, runNo, sent,
          recorded, last, runStart, catalog, utilities, layers_list, lpc, faults,
          rname, rcalls, planAreaData, source_files, pdfCount, missing_pdfs, Status, dpc,
          log_dir, plan_areas, where_clause, data_rows, spc, fc_output_names, layer_fault,
          config_emails, membership>>

\* the variables of the Layer engine's layer loop
clipVars == <<fc_output_names, layer_fault>>

\* the variables of the approved-list test
apprVars == <<config_emails, membership>>

\* the variables of the Document engine's selection of plan areas
selVars == <<plan_areas, where_clause, data_rows, spc>>

\* the variables of the Document engine's copy loop
docVars == <<planAreaData, source_files, pdfCount, missing_pdfs, Status, dpc>>

(***************************************************************************)
(* Bounds                                                                  *)
(***************************************************************************)
MaxRuns == 2        \* runs of main.py in one behaviour
NumRecords == 2     \* rows of the survey feature class
MaxUtilLen == 2     \* pieces of a requested-utilities text
MaxFaults == 2      \* failures of the environment (engine, mail, filesystem) in one behaviour
MaxCalls == 3       \* successive calls of the Output Folder Resolver
MaxDocs == 3        \* plan areas selected for one request

(***************************************************************************)
(* Values                                                                  *)
(***************************************************************************)
None == "None"
NoDate == 0

Range(s) == {s[i] : i \in 1..Len(s)}

NoDuplicates(s) == \A i, j \in 1..Len(s) : s[i] = s[j] => i = j

\* str.lower() on the pieces that occur in the model
Lower(t) ==
    CASE t = "AS_BUILTS" -> "as_builts"
      [] t = "Gis_Files" -> "gis_files"
      [] t = "All"       -> "all"
      [] t = "Water"     -> "water"
      [] t = "Sanitary"  -> "sanitary"
      [] t = "Storm"     -> "storm"
      [] t = "Ann@City.gov" -> "ann@city.gov"
      [] t = "Bob@Ext.com"  -> "bob@ext.com"
      [] t = "Cy@City.gov"  -> "cy@city.gov"
      [] OTHER -> t

LowerAll(text) == [i \in 1..Len(text) |-> Lower(text[i])]

\* str.strip() on a folder text: surrounding blanks go, a blank text becomes ""
Strip(name) ==
    IF name = <<" A ">> THEN <<"A">>
    ELSE IF name = <<"  ">> THEN <<"">>
    ELSE name

(***************************************************************************)
(* models.py                                                               *)
(***************************************************************************)
approved_emails == {"ann@city.gov"}
admin_email == "admin@city.gov"

\* SurveyRecord(**record_dict) followed by __post_init__; the row handed in
\* holds the columns of main.py's fields list only, so the two sub-status
\* attributes keep their dataclass default None
SurveyRecord(row) ==
    [ GlobalId            |-> row.GlobalId,
      email               |-> row.email,
      FulfilledDate       |-> row.FulfilledDate,
      as_built_fulfilled  |-> NoDate,
      gis_files_fulfilled |-> NoDate,
      folder              |-> IF row.specify_desired_output_folder_n # <<"">>
                              THEN Strip(row.specify_desired_output_folder_n)
                              ELSE <<"">>,
      outputs_list        |-> IF row.desired_output # <<>>
                              THEN LowerAll(row.desired_output) ELSE <<>>,
      utilities_list      |-> IF row.utilities # <<>> THEN row.utilities ELSE <<>> ]

water_layers == <<"Curb Stop", "System Valve", "Fire Hydrant", "Water Main", "Water Lateral">>
sanitary_layers == <<"Sanitary Clean Out", "Sanitary Gravity Main", "Sanitary Force Main",
                     "Sanitary Lateral Line", "Sanitary Manhole", "Sanitary Valve",
                     "Sanitary Lift Station">>
storm_layers == <<"Storm Mains", "Storm Inlets", "Storm Forcemains", "Storm Lift Station",
                  "Storm Manholes", "Storm Outlets">>

\* the keys of layer_dict in insertion order, with the category lists
layer_dict ==
    [ layers   |-> water_layers \o sanitary_layers \o storm_layers,
      water    |-> water_layers,
      sanitary |-> sanitary_layers,
      storm    |-> storm_layers ]

\* catalogs an installation can configure (models.py asks for the lists to be
\* edited): the shipped one, a small one, and one whose "Manhole" layer is
\* listed under both Sanitary and Storm
SmallCatalog ==
    [ layers   |-> <<"Hydrant", "Sewer Main", "Storm Main">>,
      water    |-> <<"Hydrant">>,
      sanitary |-> <<"Sewer Main">>,
      storm    |-> <<"Storm Main">> ]

SharedCatalog ==
    [ layers   |-> <<"Hydrant", "Sewer Main", "Manhole", "Storm Main">>,
      water    |-> <<"Hydrant">>,
      sanitary |-> <<"Sewer Main", "Manhole">>,
      storm    |-> <<"Manhole", "Storm Main">> ]

Catalogs == {layer_dict, SmallCatalog, SharedCatalog}

(***************************************************************************)
(* process_gis_files.py: the working layer set                             *)
(***************************************************************************)
\* utilities_list is a list built by __post_init__; it is never None
IsNone(utilities_list) == utilities_list = <<None>>

LayersList(cat, utilities_list) ==
    IF "All" \in Range(utilities_list) \/ IsNone(utilities_list)
    THEN cat.layers
    ELSE (IF "Water" \in Range(utilities_list) THEN cat.water ELSE <<>>)
         \o (IF "Sanitary" \in Range(utilities_list) THEN cat.sanitary ELSE <<>>)
         \o (IF "Storm" \in Range(utilities_list) THEN cat.storm ELSE <<>>)

(***************************************************************************)
(* main.py: the Output Folder Resolver                                     *)
(***************************************************************************)
\* os.path.exists(os.path.join(project_directory, folder)): joining the empty
\* name gives project_directory itself, which exists
PathExists(d, name) == name = <<"">> \/ name \in d

\* a slip: the suffix is taken from the number of suffixed folders present
ProbeByCount(d, folder, i) ==
    i + Cardinality({n \in d : Len(n) = Len(folder) + 1 /\ SubSeq(n, 1, Len(folder)) = folder})

RECURSIVE Probe(_, _, _)
Probe(d, folder, i) ==
    IF PathExists(d, Append(folder, i)) THEN Probe(d, folder, i + 1) ELSE i

\* a slip: "_1" is appended without probing
ResolveFolderNoProbe(d, folder) ==
    IF PathExists(d, folder) THEN Append(folder, 1) ELSE folder

ResolveFolder(d, folder) ==
    IF PathExists(d, folder) THEN Append(folder, Probe(d, folder, 1)) ELSE folder

(***************************************************************************)
(* The record store and the engines                                        *)
(***************************************************************************)
RowIds == 1..NumRecords

\* what a survey respondent can submit: desired outputs, utilities, email, folder
Submissions ==
    { [desired_output |-> <<"as_builts">>, utilities |-> <<"All">>,
       email |-> "bob@ext.com", specify_desired_output_folder_n |-> <<"A">>],
      [desired_output |-> <<"gis_files">>, utilities |-> <<"Water", "Storm">>,
       email |-> "ann@city.gov", specify_desired_output_folder_n |-> <<"A">>],
      [desired_output |-> <<"AS_BUILTS", "Gis_Files">>, utilities |-> <<"Sanitary">>,
       email |-> "Ann@City.gov", specify_desired_output_folder_n |-> <<" A ">>],
      [desired_output |-> <<>>, utilities |-> <<>>,
       email |-> "ann@city.gov", specify_desired_output_folder_n |-> <<"">>] }

\* the cursor returns the rows in table order, which is not kept in creation
\* order: here the row returned first was created last
CreatedAt(i) == NumRecords + 1 - i

\* a freshly submitted row: nothing fulfilled yet
NewRow(i, sub, created) ==
    [ GlobalId |-> i, CreationDate |-> created,
      FulfilledDate |-> NoDate, as_builts_fulfilled |-> NoDate, gis_files_fulfilled |-> NoDate,
      desired_output |-> sub.desired_output, utilities |-> sub.utilities, email |-> sub.email,
      specify_desired_output_folder_n |-> sub.specify_desired_output_folder_n ]

\* errors[k] = m
Put(errs, k, m) == [x \in (DOMAIN errs) \cup {k} |-> IF x = k THEN m ELSE errs[x]]

\* a slip: the cursor updates every row, without the globalid test
UpdateAllRows(st, GlobalID, field, now) ==
    [g \in DOMAIN st |-> [st[g] EXCEPT ![field] = now]]

\* with arcpy.da.UpdateCursor(survey, ["globalid", field]): write now into the
\* row whose globalid is GlobalID
UpdateRow(st, GlobalID, field, now) ==
    [g \in DOMAIN st |->
        IF st[g].GlobalId = GlobalID THEN [st[g] EXCEPT ![field] = now] ELSE st[g]]

\* list.remove(x): the first occurrence goes
RemoveFirst(s, x) ==
    LET i == CHOOSE k \in 1..Len(s) : s[k] = x /\ \A j \in 1..(k - 1) : s[j] # x
    IN  SubSeq(s, 1, i - 1) \o SubSeq(s, i + 1, Len(s))

\* models.py send_email: building the recipient list iterates email_to, which
\* raises when email_to is None; otherwise the transport may raise (fault)
SendRaises(email_to, fault) == email_to = None \/ fault = "raise"

GisFaults == {"ok", "raise"}
AbFaults == {"ok", "early", "nosrc", "copy", "update", "email"}
Fatals == {"none", "mkdir", "delete"}
MailFaults == {"ok", "raise"}

\* process_gis_files.py run_gis_files_process.  e is the state the call works
\* on: the store, the ledger and the counter handed in, the mail sent, the
\* events of the iteration.  fault = "raise": some step of the try block raises.
run_gis_files_process(Record, e, fault, now) ==
    LET started == [e EXCEPT !.events = Append(@, "gis_start")]
    IN  IF fault = "raise"
        THEN [started EXCEPT !.errors = Put(e.errors, e.error_counter, "gis"),
                             !.error_counter = e.error_counter + 1,
                             !.recorded = e.recorded + 1,
                             !.events = Append(@, "gis_error")]
        ELSE IF e.error_counter = 0
        THEN [started EXCEPT !.store = UpdateRow(e.store, Record.GlobalId,
                                                 "gis_files_fulfilled", now),
                             !.events = @ \o <<"gis_clipped", "gis_mark">>]
        ELSE [started EXCEPT !.events = Append(@, "gis_clipped")]

\* the returns of run_as_built_process that record an error: the counter,
\* 0 since entry, becomes 1 and the message goes under key 1
AbError(e, msg) ==
    [e EXCEPT !.error_counter = 1,
              !.errors = Put(e.errors, 1, msg),
              !.recorded = e.recorded + 1,
              !.events = Append(@, "ab_error")]

\* a slip: the membership test is left out
IsApprovedAlways(email) == email # None

\* requester_email.lower() in approved_emails, for a configured list
IsApprovedIn(list, email) == Lower(email) \in list

IsApproved(email) == IsApprovedIn(approved_emails, email)

\* process_as_built.py run_as_built_process.  The counter handed in is
\* replaced by 0 on entry; target_dir is where the files and Index.csv go.
run_as_built_process(Record, e0, target_dir, fault, now) ==
    LET e == [e0 EXCEPT !.error_counter = 0, !.events = Append(@, "ab_start"),
                        !.pdf_dir = target_dir]
    IN  CASE fault = "early"  -> AbError(e, "ab")
          [] fault = "nosrc"  -> AbError(e, "ab_source_directory")
          [] fault = "copy"   -> AbError([e EXCEPT !.events = Append(@, "ab_copy")], "ab_copy")
          [] fault = "update" -> AbError([e EXCEPT !.events = @ \o <<"ab_copy", "ab_index">>],
                                         "ab_update")
          [] OTHER ->
             LET marked == IF e.error_counter = 0
                           THEN [e EXCEPT !.store = UpdateRow(e.store, Record.GlobalId,
                                                              "as_builts_fulfilled", now),
                                          !.events = @ \o <<"ab_copy", "ab_index", "ab_mark">>]
                           ELSE [e EXCEPT !.events = @ \o <<"ab_copy", "ab_index">>]
                 approved == IsApproved(Record.email)
                 email_to == IF approved THEN Record.email ELSE admin_email
                 kind == IF ~approved THEN "unknown_requester"
                         ELSE IF "gis_files" \in Range(Record.outputs_list)
                              THEN "as_builts_and_gis" ELSE "as_builts"
             IN  IF SendRaises(email_to, IF fault = "email" THEN "raise" ELSE "ok")
                 THEN AbError(marked, "ab_email")
                 ELSE [marked EXCEPT !.sent = @ \cup {[to |-> email_to, kind |-> kind,
                                                       gid |-> Record.GlobalId, run |-> now,
                                                       table |-> IF approved THEN <<>>
                                                                 ELSE <<Record>>]},
                                     !.events = Append(@, "ab_email")]

\* a slip: the date is written without looking at the counter
update_fulfilled_date_unguarded(e, GlobalID, now) ==
    [e EXCEPT !.store = UpdateRow(e.store, GlobalID, "FulfilledDate", now),
              !.events = Append(@, "mark_fulfilled")]

\* main.py update_fulfilled_date: reads the module-level error_counter
update_fulfilled_date(e, GlobalID, now) ==
    IF e.error_counter = 0
    THEN [e EXCEPT !.store = UpdateRow(e.store, GlobalID, "FulfilledDate", now),
                   !.events = Append(@, "mark_fulfilled")]
    ELSE e

(***************************************************************************)
(* main.py: one iteration of the per-record loop                           *)
(***************************************************************************)
\* main.py sets requester_email = None before the loop and never assigns it
requester_email == None

\* the sub-status exclusion of main.py, on the record as fetched
PendingOutputs(Record) ==
    LET l1 == IF Record.as_built_fulfilled # NoDate /\ "as_builts" \in Range(Record.outputs_list)
              THEN RemoveFirst(Record.outputs_list, "as_builts") ELSE Record.outputs_list
    IN  IF Record.gis_files_fulfilled # NoDate /\ "gis_files" \in Range(l1)
        THEN RemoveFirst(l1, "gis_files") ELSE l1

\* a slip: a record without a recognised output is handed to the Layer engine
DispatchDefaultsToLayers(outputs_list) ==
    IF "as_builts" \in Range(outputs_list) /\ "gis_files" \in Range(outputs_list) THEN "both"
    ELSE IF "as_builts" \in Range(outputs_list) THEN "as_builts"
    ELSE "gis_files"

Dispatch(outputs_list) ==
    IF "as_builts" \in Range(outputs_list) /\ "gis_files" \in Range(outputs_list) THEN "both"
    ELSE IF "as_builts" \in Range(outputs_list) THEN "as_builts"
    ELSE IF "gis_files" \in Range(outputs_list) THEN "gis_files"
    ELSE "none"

\* the GIS-only notification: sent to requester_email, a failure is logged
GisOnlyEmail(e, GlobalID, mail, now) ==
    IF SendRaises(requester_email, mail)
    THEN [e EXCEPT !.events = Append(@, "gis_email_error")]
    ELSE [e EXCEPT !.sent = @ \cup {[to |-> requester_email, kind |-> "gis_only",
                                     gid |-> GlobalID, run |-> now, table |-> <<>>]},
                   !.events = Append(@, "gis_email")]

\* the branches of the dispatch, on the record after the exclusion
RunEngines(Record, e, target_dir, gf, af, mf, now) ==
    LET d == Dispatch(Record.outputs_list)
    IN  CASE d = "both" ->
               update_fulfilled_date(
                   run_as_built_process(Record,
                       run_gis_files_process(Record, e, gf, now), target_dir, af, now),
                   Record.GlobalId, now)
          [] d = "as_builts" ->
               update_fulfilled_date(run_as_built_process(Record, e, target_dir, af, now),
                                     Record.GlobalId, now)
          [] d = "gis_files" ->
               GisOnlyEmail(
                   update_fulfilled_date(run_gis_files_process(Record, e, gf, now),
                                         Record.GlobalId, now),
                   Record.GlobalId, mf, now)
          [] OTHER -> [e EXCEPT !.events = Append(@, "no_valid_output")]

\* a slip: an engine lets its exception through
LeavesLoopOnEngineError(fatal, gf, af) == fatal # "none" \/ gf # "ok" \/ af # "ok"

\* whether an exception leaves the loop body: both engines catch every
\* Exception in their own except clause, the statements of main.py do not
LeavesLoop(fatal, gf, af) == fatal # "none"

\* the body of the for loop for one record.  fatal names the statement outside
\* the engines that raises, if any: os.mkdir or the Delete of the selection.
\* The result says whether an exception left the loop.
Iteration(Fetched, e0, d0, fatal, gf, af, mf, now) ==
    LET folder == ResolveFolder(d0, Strip(Fetched.folder))
        Record == [Fetched EXCEPT !.outputs_list = PendingOutputs(Fetched)]
        e1     == [e0 EXCEPT !.events = <<"select">>]
    IN  IF fatal = "mkdir"
        THEN [e |-> e1, dirs |-> d0, raised |-> TRUE, folder |-> <<>>, dispatch |-> "-"]
        ELSE LET e2 == RunEngines(Record, [e1 EXCEPT !.events = Append(@, "mkdir")],
                                  folder, gf, af, mf, now)
             IN  [e |-> IF fatal = "delete" THEN e2
                        ELSE [e2 EXCEPT !.events = Append(@, "release")],
                  dirs |-> d0 \cup {folder}, raised |-> LeavesLoop(fatal, gf, af),
                  folder |-> folder, dispatch |-> Dispatch(Record.outputs_list)]

\* the except clause at the end of main.py: one more ledger entry, then the
\* administrator message with the table of the ledger.  Nothing catches a
\* failure of that send_email.
TopLevelExcept(e, GlobalID, mf, now) ==
    LET e1 == [e EXCEPT !.error_counter = e.error_counter + 1,
                        !.errors = Put(e.errors, e.error_counter + 1, "fatal"),
                        !.recorded = e.recorded + 1,
                        !.events = Append(@, "fatal")]
    IN  IF SendRaises(admin_email, mf)
        THEN [e1 EXCEPT !.events = Append(@, "admin_email_error")]
        ELSE [e1 EXCEPT !.sent = @ \cup {[to |-> admin_email, kind |-> "error",
                                          gid |-> GlobalID, run |-> now,
                                          table |-> e1.errors]},
                        !.events = Append(@, "admin_email")]

(***************************************************************************)
(* The orchestrator as a state machine                                     *)
(***************************************************************************)
NoLast ==
    [ gid |-> 0, dispatch |-> "-", gis |-> "-", ab |-> "-", fatal |-> "-", folder |-> <<>>,
      dirsBefore |-> {}, preF |-> NoDate, preA |-> NoDate, preG |-> NoDate,
      storeBefore |-> <<>>, errorsBefore |-> <<>>, sentBefore |-> {},
      ecBefore |-> 0, recordedBefore |-> 0, events |-> <<>>, pdf_dir |-> <<>> ]

\* a slip: the test reads the gis_files_fulfilled column instead of row[1]
PendingFromByLayerStatus(st, i) ==
    SelectSeq([k \in 1..NumRecords |-> k],
              LAMBDA g : g >= i /\ st[g].gis_files_fulfilled = NoDate)

\* the rows of the cursor, in row order, that satisfy row[1] is None
RECURSIVE PendingFrom(_, _)
PendingFrom(st, i) ==
    IF i > NumRecords THEN <<>>
    ELSE (IF st[i].FulfilledDate = NoDate THEN <<i>> ELSE <<>>) \o PendingFrom(st, i + 1)

\* a slip: the cursor rows are taken without the FulfilledDate test
FetchAllRows(st) == [k \in 1..NumRecords |-> k]

\* a slip: the rows are kept in a list, and each is appended twice
FetchPendingTwice(st) == PendingFrom(st, 1) \o PendingFrom(st, 1)

FetchPending(st) == PendingFrom(st, 1)

\* an earlier request already left a folder "A" under the output root
InitialDirs == {{<<"A">>}}

\* the approved-list test is not under study
IdleMembership ==
    /\ config_emails = {}
    /\ membership = [email |-> None, approved |-> FALSE]

\* the layer loop is not under study
IdleClip ==
    /\ IdleMembership
    /\ fc_output_names = <<>>
    /\ layer_fault = [layer |-> None, kind |-> "none"]

\* the selection of plan areas is not under study
IdleSelect ==
    /\ IdleClip
    /\ plan_areas = {}
    /\ where_clause = <<>>
    /\ data_rows = {}
    /\ spc = "off"

\* the copy loop of the Document engine is not under study
IdleDocs ==
    /\ IdleSelect
    /\ planAreaData = <<>>
    /\ source_files = {}
    /\ pdfCount = 0
    /\ missing_pdfs = <<>>
    /\ Status = <<>>
    /\ dpc = "off"

IdleOthers ==
    /\ catalog = layer_dict
    /\ utilities = <<>>
    /\ layers_list = <<>>
    /\ lpc = "off"
    /\ rname = <<"">>
    /\ rcalls = <<>>
    /\ IdleDocs

Init ==
    /\ \E subs \in [RowIds -> Submissions] :
          store = [i \in RowIds |-> NewRow(i, subs[i], CreatedAt(i))]
    /\ dirs \in InitialDirs
    /\ errors = <<>>
    /\ error_counter = 0
    /\ pc = "idle"
    /\ queue = <<>>
    /\ surveyData = <<>>
    /\ runNo = 0
    /\ sent = {}
    /\ recorded = 0
    /\ last = NoLast
    /\ runStart = [store |-> store, dirs |-> dirs, sent |-> sent, previous |-> pc]
    /\ faults = 0
    /\ log_dir = {}
    /\ IdleOthers

\* a slip: the log file of a run that found nothing is left in place
KeepLog(files, log_file) == files

\* os.remove(log_file)
RemoveLog(files, log_file) == files \ {log_file}

\* a run of main.py starts: a new process, its log file (the runs of a
\* behaviour are less than ten days apart, so delete_old_files removes none),
\* an empty ledger, the fetch of the pending rows, and the exit when there is
\* none
Fetch ==
    /\ pc \in {"idle", "exited", "done", "fatal", "crashed"}
    /\ runNo < MaxRuns
    /\ runNo' = runNo + 1
    /\ errors' = <<>>
    /\ error_counter' = 0
    /\ recorded' = 0
    /\ queue' = FetchPending(store)
    /\ surveyData' = [g \in Range(FetchPending(store)) |-> SurveyRecord(store[g])]
    /\ pc' = IF FetchPending(store) = <<>> THEN "exited" ELSE "loop"
    /\ log_dir' = IF FetchPending(store) = <<>>
                  THEN RemoveLog(log_dir \cup {runNo + 1}, runNo + 1)
                  ELSE log_dir \cup {runNo + 1}
    /\ last' = NoLast
    /\ runStart' = [store |-> store, dirs |-> dirs, sent |-> sent, previous |-> pc]
    /\ UNCHANGED <<store, dirs, sent, catalog, utilities, layers_list, lpc, faults,
                   rname, rcalls>>
    /\ UNCHANGED <<docVars, selVars, clipVars, apprVars>>

\* the failures an iteration injects; an input of a step that is not reached
\* is "ok"
Injected(fatal, gf, af, mf) ==
    (IF fatal # "none" THEN 1 ELSE 0)
    + (IF gf # "ok" THEN 1 ELSE 0)
    + (IF af # "ok" THEN 1 ELSE 0)
    + (IF mf # "ok" THEN 1 ELSE 0)

Reached(d, fatal, gf, af, mf) ==
    /\ gf # "ok" => fatal # "mkdir" /\ d \in {"both", "gis_files"}
    /\ af # "ok" => fatal # "mkdir" /\ d \in {"both", "as_builts"}
    /\ mf # "ok" => fatal # "none"

\* the per-record loop takes the next fetched record
ProcessRecord ==
    /\ pc = "loop"
    /\ queue # <<>>
    /\ \E fatal \in Fatals, gf \in GisFaults, af \in AbFaults, mf \in MailFaults :
          LET GlobalID == Head(queue)
              e0 == [store |-> store, sent |-> sent, errors |-> errors,
                     error_counter |-> error_counter, recorded |-> recorded,
                     events |-> <<>>, pdf_dir |-> <<>>]
              it == Iteration(surveyData[GlobalID], e0, dirs, fatal, gf, af, mf, runNo)
              e  == IF it.raised THEN TopLevelExcept(it.e, GlobalID, mf, runNo) ELSE it.e
              d  == Dispatch(PendingOutputs(surveyData[GlobalID]))
          IN  /\ Reached(d, fatal, gf, af, mf)
              /\ faults + Injected(fatal, gf, af, mf) <= MaxFaults
              /\ faults' = faults + Injected(fatal, gf, af, mf)
              /\ store' = e.store
              /\ sent' = e.sent
              /\ errors' = e.errors
              /\ error_counter' = e.error_counter
              /\ recorded' = e.recorded
              /\ dirs' = it.dirs
              /\ queue' = Tail(queue)
              /\ pc' = IF ~it.raised THEN "loop"
                       ELSE IF SendRaises(admin_email, mf) THEN "crashed" ELSE "fatal"
              /\ last' = [ gid |-> GlobalID, dispatch |-> it.dispatch,
                           gis |-> IF it.dispatch \in {"both", "gis_files"} THEN gf ELSE "-",
                           ab |-> IF it.dispatch \in {"both", "as_builts"} THEN af ELSE "-",
                           fatal |-> fatal, folder |-> it.folder, dirsBefore |-> dirs,
                           preF |-> store[GlobalID].FulfilledDate,
                           preA |-> store[GlobalID].as_builts_fulfilled,
                           preG |-> store[GlobalID].gis_files_fulfilled,
                           storeBefore |-> store, errorsBefore |-> errors,
                           sentBefore |-> sent,
                           ecBefore |-> error_counter, recordedBefore |-> recorded,
                           events |-> e.events, pdf_dir |-> e.pdf_dir ]
    /\ UNCHANGED <<surveyData, runNo, runStart, catalog, utilities, layers_list, lpc,
                   rname, rcalls>>
    /\ UNCHANGED <<docVars, log_dir, selVars, clipVars, apprVars>>

\* the loop is over and the script ends
Finish ==
    /\ pc = "loop"
    /\ queue = <<>>
    /\ pc' = "done"
    /\ UNCHANGED <<store, dirs, errors, error_counter, queue, surveyData, runNo, sent,
                   recorded, last, runStart, catalog, utilities, layers_list, lpc, faults,
                   rname, rcalls>>
    /\ UNCHANGED <<docVars, log_dir, selVars, clipVars, apprVars>>

Next == Fetch \/ ProcessRecord \/ Finish

Spec == Init /\ [][Next]_vars

\* the for statement goes on to the next key of surveyData: the steps of
\* Next that do so are the steps of ProcessRecord
TakesNextRecord == pc = "loop" /\ queue # <<>> /\ queue' = Tail(queue)

\* the script runs to completion once started, and it is started again
\* after it has ended
SpecLive ==
    Spec /\ WF_vars(Fetch) /\ WF_queue(TakesNextRecord) /\ WF_vars(Finish)

(***************************************************************************)
(* The Layer engine's working set, on its own                              *)
(***************************************************************************)
UtilityPieces == {"All", "Water", "Sanitary", "Storm", "all"}

\* the texts of at most MaxUtilLen pieces
UtilityTexts == UNION {[1..n -> UtilityPieces] : n \in 0..MaxUtilLen}

IdleOrchestrator ==
    /\ store = [i \in RowIds |-> NewRow(i, CHOOSE sub \in Submissions : sub.desired_output = <<>>, CreatedAt(i))]
    /\ errors = <<>>
    /\ error_counter = 0
    /\ pc = "idle"
    /\ queue = <<>>
    /\ surveyData = <<>>
    /\ runNo = 0
    /\ sent = {}
    /\ recorded = 0
    /\ last = NoLast
    /\ runStart = [store |-> store, dirs |-> {}, sent |-> {}, previous |-> "idle"]
    /\ faults = 0
    /\ log_dir = {}

InitLayers ==
    /\ catalog \in Catalogs
    /\ utilities \in UtilityTexts
    /\ layers_list = <<>>
    /\ lpc = "ready"
    /\ dirs = {}
    /\ rname = <<"">>
    /\ rcalls = <<>>
    /\ IdleDocs
    /\ IdleOrchestrator

\* the record is built from the row and the engine computes layers_list
BuildLayers ==
    /\ lpc = "ready"
    /\ layers_list' = LayersList(catalog,
           SurveyRecord([store[1] EXCEPT !.utilities = utilities]).utilities_list)
    /\ lpc' = "built"
    /\ UNCHANGED <<store, dirs, errors, error_counter, pc, queue, surveyData, runNo, sent,
                   recorded, last, runStart, catalog, utilities, faults, rname, rcalls>>
    /\ UNCHANGED <<docVars, log_dir, selVars, clipVars, apprVars>>

\* what can go wrong with one layer of the working set: layer_dict has no
\* path for it, or one of the arcpy calls made for it raises
LayerFaultKinds == {"nopath", "raise"}

\* the for loop over layers_list from its k-th layer on; acc holds
\* fc_output_names and whether an exception left the loop
RECURSIVE ClipLoop(_, _, _, _)
ClipLoop(layers, fault, k, acc) ==
    IF k > Len(layers) THEN acc
    ELSE IF layers[k] = fault.layer /\ fault.kind = "nopath"
         THEN ClipLoop(layers, fault, k + 1, acc)
    ELSE IF layers[k] = fault.layer /\ fault.kind = "raise"
         THEN [acc EXCEPT !.raised = TRUE]
    ELSE ClipLoop(layers, fault, k + 1,
                  [acc EXCEPT !.fc_output_names = Append(@, layers[k])])

\* process_gis_files.py lines 88-127, with at most one layer at fault
ClipLayers ==
    /\ lpc = "built"
    /\ \E layer \in Range(layers_list) \cup {None}, kind \in LayerFaultKinds \cup {"none"} :
          /\ layer = None <=> kind = "none"
          /\ layer_fault' = [layer |-> layer, kind |-> kind]
          /\ LET r == ClipLoop(layers_list, layer_fault', 1,
                               [fc_output_names |-> <<>>, raised |-> FALSE])
             IN  /\ fc_output_names' = r.fc_output_names
                 /\ lpc' = IF r.raised THEN "raised" ELSE "clipped"
    /\ UNCHANGED <<store, dirs, errors, error_counter, pc, queue, surveyData, runNo, sent,
                   recorded, last, runStart, catalog, utilities, layers_list, faults, rname,
                   rcalls>>
    /\ UNCHANGED <<docVars, log_dir, selVars, apprVars>>

NextLayers == BuildLayers \/ ClipLayers

SpecLayers == InitLayers /\ [][NextLayers]_vars

(***************************************************************************)
(* The Output Folder Resolver, on its own                                  *)
(***************************************************************************)
FolderTexts == {<<"">>, <<"A">>, <<" A ">>, <<"A", 1>>}

ExistingFolders == {<<"A">>, <<"A", 1>>, <<"A", 2>>, <<"A", 1, 1>>, <<"", 1>>, <<"", 2>>}

InitResolver ==
    /\ dirs \in SUBSET ExistingFolders
    /\ rname \in FolderTexts
    /\ rcalls = <<>>
    /\ catalog = layer_dict
    /\ utilities = <<>>
    /\ layers_list = <<>>
    /\ lpc = "off"
    /\ IdleDocs
    /\ IdleOrchestrator

\* main.py lines 176-195 for a record whose folder text is rname: strip,
\* resolve, os.mkdir
CallResolver ==
    /\ Len(rcalls) < MaxCalls
    /\ LET folder == ResolveFolder(dirs, Strip(rname))
       IN  /\ dirs' = dirs \cup {folder}
           /\ rcalls' = Append(rcalls, [existing |-> dirs, folder |-> folder])
    /\ UNCHANGED <<store, errors, error_counter, pc, queue, surveyData, runNo, sent,
                   recorded, last, runStart, catalog, utilities, layers_list, lpc, faults,
                   rname>>
    /\ UNCHANGED <<docVars, log_dir, selVars, clipVars, apprVars>>

NextResolver == CallResolver

SpecResolver == InitResolver /\ [][NextResolver]_vars

(***************************************************************************)
(* The Document engine's copy loop and manifest, on their own              *)
(***************************************************************************)
\* a value of the ID column: a text, held as its pieces between dots ("P.1"
\* is <<"P", "1">>), or an integer, held as its digits
TextId(pieces) == [type |-> "str", text |-> pieces]
IntId(digits) == [type |-> "int", text |-> <<digits>>]

DocIds == {TextId(<<"P1">>), TextId(<<"P2">>), TextId(<<"P">>), TextId(<<"P", "1">>),
           IntId("12")}

\* str(id) + ".pdf"
PdfName(id) == Append(id.text, "pdf")

\* pdf_name.split('.')[0]
Stem(pdf_name) == <<Head(pdf_name)>>

\* planAreaData.loc[planAreaData['ID'] == key].empty for a str key: an
\* integer ID equals no str
LookupEmpty(data, key) ==
    ~ \E k \in 1..Len(data) : data[k].type = "str" /\ data[k].text = key

\* the for loop over pdf_list from its k-th name on; acc holds pdfCount and
\* missing_pdfs
RECURSIVE CopyLoop(_, _, _, _)
CopyLoop(data, files, k, acc) ==
    IF k > Len(data) THEN acc
    ELSE LET pdf_name == PdfName(data[k])
         IN  IF pdf_name \notin files
             THEN IF LookupEmpty(data, Stem(pdf_name))
                  THEN CopyLoop(data, files, k + 1,
                                [acc EXCEPT !.missing_pdfs = Append(@, pdf_name)])
                  ELSE CopyLoop(data, files, k + 1, acc)
             ELSE CopyLoop(data, files, k + 1, [acc EXCEPT !.pdfCount = @ + 1])

\* planAreaData['Status'] = 'Included', then 'Not found' where
\* planAreaData['ID'].isin(the stems of missing_pdfs)
ManifestStatus(data, missing) ==
    [k \in 1..Len(data) |->
        IF data[k].type = "str" /\ data[k].text \in {Stem(m) : m \in Range(missing)}
        THEN "Not found" ELSE "Included"]

\* the selections of at most MaxDocs plan areas, each ID once
Selections ==
    UNION { {d \in [1..n -> DocIds] : NoDuplicates(d)} : n \in 0..MaxDocs }

InitDocs ==
    /\ planAreaData \in Selections
    /\ source_files \in SUBSET {PdfName(id) : id \in DocIds}
    /\ pdfCount = 0
    /\ missing_pdfs = <<>>
    /\ Status = <<>>
    /\ dpc = "ready"
    /\ IdleSelect
    /\ dirs = {}
    /\ catalog = layer_dict
    /\ utilities = <<>>
    /\ layers_list = <<>>
    /\ lpc = "off"
    /\ rname = <<"">>
    /\ rcalls = <<>>
    /\ IdleOrchestrator

\* process_as_built.py lines 151-222: the copy loop, then the Status column
CopyDocuments ==
    /\ dpc = "ready"
    /\ LET r == CopyLoop(planAreaData, source_files, 1,
                         [pdfCount |-> 0, missing_pdfs |-> <<>>])
       IN  /\ pdfCount' = r.pdfCount
           /\ missing_pdfs' = r.missing_pdfs
           /\ Status' = ManifestStatus(planAreaData, r.missing_pdfs)
    /\ dpc' = "indexed"
    /\ UNCHANGED <<store, dirs, errors, error_counter, pc, queue, surveyData, runNo, sent,
                   recorded, last, runStart, catalog, utilities, layers_list, lpc, faults,
                   rname, rcalls, planAreaData, source_files, log_dir>>
    /\ UNCHANGED <<selVars, clipVars, apprVars>>

NextDocs == CopyDocuments

SpecDocs == InitDocs /\ [][NextDocs]_vars

(***************************************************************************)
(* The Document engine's selection of plan areas, on its own               *)
(***************************************************************************)
\* the yes/no columns of the plan areas layer that a utility can name
FlagColumns == {"Water", "Sanitary", "Storm"}

\* util in columns_to_keep, for the pieces that occur in the model
InColumnsToKeep(util) == util \in FlagColumns

\* a plan area, by the value of its yes/no columns
PlanArea(w, sa, st) == [Water |-> w, Sanitary |-> sa, Storm |-> st]

IntersectingPool ==
    { PlanArea("Yes", "No", "No"), PlanArea("No", "Yes", "Yes"),
      PlanArea("No", "No", "No"), PlanArea("Yes", "Yes", "Yes") }

\* the where clause as the sequence of its OR terms: a column name stands
\* for "<column> = 'Yes'", and <<>> is the empty text
WhereClause(utilities_list) ==
    IF "All" \notin Range(utilities_list)
    THEN SelectSeq(utilities_list, InColumnsToKeep)
    ELSE <<"1=1">>

\* arcpy.da.SearchCursor(..., where_clause=...): an empty where clause
\* filters nothing
CursorRows(areas, clause) ==
    IF clause = <<>> \/ clause = <<"1=1">> THEN areas
    ELSE {f \in areas : \E i \in 1..Len(clause) : f[clause[i]] = "Yes"}

InitSelect ==
    /\ plan_areas \in SUBSET IntersectingPool
    /\ utilities \in UtilityTexts
    /\ where_clause = <<>>
    /\ data_rows = {}
    /\ spc = "ready"
    /\ IdleClip
    /\ planAreaData = <<>>
    /\ source_files = {}
    /\ pdfCount = 0
    /\ missing_pdfs = <<>>
    /\ Status = <<>>
    /\ dpc = "off"
    /\ dirs = {}
    /\ catalog = layer_dict
    /\ layers_list = <<>>
    /\ lpc = "off"
    /\ rname = <<"">>
    /\ rcalls = <<>>
    /\ IdleOrchestrator

\* process_as_built.py lines 111-130 for a record whose utilities text is
\* utilities
SelectPlanAreas ==
    /\ spc = "ready"
    /\ LET Record == SurveyRecord([store[1] EXCEPT !.utilities = utilities])
           clause == WhereClause(Record.utilities_list)
       IN  /\ where_clause' = clause
           /\ data_rows' = CursorRows(plan_areas, clause)
    /\ spc' = "selected"
    /\ UNCHANGED <<store, dirs, errors, error_counter, pc, queue, surveyData, runNo, sent,
                   recorded, last, runStart, catalog, utilities, layers_list, lpc, faults,
                   rname, rcalls, log_dir, plan_areas>>
    /\ UNCHANGED <<docVars, clipVars, apprVars>>

NextSelect == SelectPlanAreas

SpecSelect == InitSelect /\ [][NextSelect]_vars

(***************************************************************************)
(* The Layer engine's project folder, on its own                           *)
(***************************************************************************)
\* "GIS Files" under target_dir; dirs holds the entries of target_dir
GisFiles == <<"GIS Files">>

ExistingProjectFolders == {GisFiles, <<"GIS Files", 1>>, <<"GIS Files", 2>>,
                           <<"GIS Files", 1, 1>>, <<"GIS Files", 1, 2>>,
                           <<"GIS Files", 2, 2>>}

\* while os.path.exists(project_folder):
\*     project_folder = rf"{project_folder}_{counter}"; counter += 1
RECURSIVE ProbeProjectFolder(_, _, _)
ProbeProjectFolder(d, project_folder, counter) ==
    IF project_folder \in d
    THEN ProbeProjectFolder(d, Append(project_folder, counter), counter + 1)
    ELSE project_folder

InitProject ==
    /\ dirs \in SUBSET ExistingProjectFolders
    /\ rname = GisFiles
    /\ rcalls = <<>>
    /\ catalog = layer_dict
    /\ utilities = <<>>
    /\ layers_list = <<>>
    /\ lpc = "off"
    /\ IdleDocs
    /\ IdleOrchestrator

\* process_gis_files.py lines 42-60 for a target_dir whose entries are dirs:
\* probe, os.makedirs
MakeProjectFolder ==
    /\ Len(rcalls) < MaxCalls
    /\ LET project_folder == ProbeProjectFolder(dirs, rname, 1)
       IN  /\ dirs' = dirs \cup {project_folder}
           /\ rcalls' = Append(rcalls, [existing |-> dirs, folder |-> project_folder])
    /\ UNCHANGED <<store, errors, error_counter, pc, queue, surveyData, runNo, sent,
                   recorded, last, runStart, catalog, utilities, layers_list, lpc, faults,
                   rname>>
    /\ UNCHANGED <<docVars, log_dir, selVars, clipVars, apprVars>>

NextProject == MakeProjectFolder

SpecProject == InitProject /\ [][NextProject]_vars

(***************************************************************************)
(* The approved-list test of the Document engine, on its own               *)
(***************************************************************************)
\* entries config.json can hold: setup.py stores them as they were typed
ConfiguredEntries == {"ann@city.gov", "Ann@City.gov", "bob@ext.com", "Bob@Ext.com",
                      "Cy@City.gov"}

\* emails a survey row can hold
RequesterEmails == {"ann@city.gov", "Ann@City.gov", "bob@ext.com", "Bob@Ext.com"}

InitApproved ==
    /\ dirs = {}
    /\ rname = <<"">>
    /\ rcalls = <<>>
    /\ catalog = layer_dict
    /\ utilities = <<>>
    /\ layers_list = <<>>
    /\ lpc = "off"
    /\ IdleDocs
    /\ IdleOrchestrator

\* process_as_built.py line 300 for one configured list and one requester
TestMembership ==
    /\ membership.email = None
    /\ \E list \in SUBSET ConfiguredEntries, email \in RequesterEmails :
          /\ config_emails' = list
          /\ membership' = [email |-> email, approved |-> IsApprovedIn(list, email)]
    /\ UNCHANGED <<store, dirs, errors, error_counter, pc, queue, surveyData, runNo, sent,
                   recorded, last, runStart, catalog, utilities, layers_list, lpc, faults,
                   rname, rcalls>>
    /\ UNCHANGED <<docVars, log_dir, selVars, clipVars>>

NextApproved == TestMembership

SpecApproved == InitApproved /\ [][NextApproved]_vars

(***************************************************************************)
(* Properties of the orchestrator (Spec)                                   *)
(***************************************************************************)
\* the output types a row requests: the recognised pieces of desired_output
RequestedOutputs(row) ==
    {"as_builts", "gis_files"} \cap Range(SurveyRecord(row).outputs_list)

SubStatus(row, o) ==
    IF o = "as_builts" THEN row.as_builts_fulfilled ELSE row.gis_files_fulfilled

Iterated == last.gid # 0
GisFailed == last.gis = "raise"
AbFailed == last.ab \notin {"ok", "-"}

\* C1: between iterations, a row that requests an output has FulfilledDate set
\* if and only if every output it requests has its sub-status timestamp set
C1_FulfilledIffSubStatuses ==
    \A g \in RowIds :
        RequestedOutputs(store[g]) # {} =>
            ( store[g].FulfilledDate # NoDate
              <=> \A o \in RequestedOutputs(store[g]) : SubStatus(store[g], o) # NoDate )

\* C2: when an engine failed in the iteration just made, the ledger has a new
\* entry, the failed engine's sub-status is as it was, and FulfilledDate of
\* the record is unset
C2_FailedEngineLeavesPending ==
    Iterated /\ (GisFailed \/ AbFailed) =>
        /\ DOMAIN errors \ DOMAIN last.errorsBefore # {}
        /\ GisFailed => store[last.gid].gis_files_fulfilled = last.preG
        /\ AbFailed => store[last.gid].as_builts_fulfilled = last.preA
        /\ store[last.gid].FulfilledDate = NoDate

\* C3: a record processed after an error of an earlier record of the run, and
\* whose own engines do not fail, gets the writes of its branch: the
\* sub-status of each engine run, and FulfilledDate
C3_LaterRecordUnaffected ==
    ( /\ Iterated
      /\ last.recordedBefore > 0
      /\ last.fatal = "none"
      /\ last.dispatch # "none"
      /\ ~GisFailed /\ ~AbFailed ) =>
        /\ store[last.gid].FulfilledDate = runNo
        /\ last.dispatch \in {"both", "gis_files"} => store[last.gid].gis_files_fulfilled = runNo
        /\ last.dispatch \in {"both", "as_builts"} => store[last.gid].as_builts_fulfilled = runNo

\* C4: a pending record that requested both outputs, with the document
\* sub-status set and the layer sub-status null, gets the Layer engine only
C4_ResumeRunsLayerEngineOnly ==
    ( /\ Iterated
      /\ last.fatal # "mkdir"
      /\ RequestedOutputs(store[last.gid]) = {"as_builts", "gis_files"}
      /\ last.preA # NoDate
      /\ last.preG = NoDate ) =>
        /\ "gis_start" \in Range(last.events)
        /\ "ab_start" \notin Range(last.events)

\* C5: the iteration for a record that requests no recognised output creates
\* no directory and changes no row
C5_NoOutputNoEffect ==
    Iterated /\ last.fatal = "none" /\ RequestedOutputs(store[last.gid]) = {} =>
        /\ dirs = last.dirsBefore
        /\ store = last.storeBefore

\* the run changed nothing and fetched nothing
RunIsNoOp ==
    /\ pc = "exited"
    /\ queue = <<>>
    /\ store = runStart.store
    /\ dirs = runStart.dirs
    /\ sent = runStart.sent

\* C8 as stated: a run that follows a run which came to its end is a no-op
C8_SecondRunNoOp ==
    runNo >= 2 /\ runStart.previous \in {"done", "exited"} => RunIsNoOp

\* C8 amended: a run that follows a run which left every row with
\* FulfilledDate set is a no-op
C8_SecondRunNoOpWhenAllFulfilled ==
    (runNo >= 2 /\ \A g \in RowIds : runStart.store[g].FulfilledDate # NoDate) => RunIsNoOp

C8_Witness ==
    /\ runNo = 2
    /\ pc = "exited"
    /\ \A g \in RowIds : store[g].FulfilledDate = 1
    /\ \E g \in RowIds : store[g].as_builts_fulfilled = 1

\* the messages the iteration just made handed to the mail service for its
\* record, addressed to the requester
NotifiedRequester ==
    {m \in sent \ last.sentBefore : m.gid = last.gid /\ m.to = store[last.gid].email}

\* C12: the requester gets no message saying that GIS files are available
\* from an iteration whose Layer engine failed, and no documents-fulfilled
\* message from an iteration whose Document engine failed
C12_OnlyCompletedOutputsNotified ==
    Iterated =>
        \A m \in NotifiedRequester :
            /\ m.kind \in {"gis_only", "as_builts_and_gis"} => ~GisFailed
            /\ m.kind \in {"as_builts", "as_builts_and_gis"} => ~AbFailed

\* the outputs of the record just iterated that were pending when its
\* iteration began: requested, and with a null sub-status in the store
OutputsPending ==
    {o \in RequestedOutputs(store[last.gid]) :
        (IF o = "as_builts" THEN last.preA ELSE last.preG) = NoDate}

GisEvents == {"gis_start", "gis_error", "gis_clipped", "gis_mark"}
AbEvents == {"ab_start", "ab_copy", "ab_index", "ab_mark", "ab_email", "ab_error"}

\* the positions in the events of the iteration of the events in evs
Positions(evs) == {k \in 1..Len(last.events) : last.events[k] \in evs}

\* C13: with both outputs pending every step of the Layer engine comes
\* before every step of the Document engine and FulfilledDate is written
\* after all of them; with documents only pending the Layer engine does not
\* run, with layers only pending the Document engine does not run
C13_EngineOrder ==
    Iterated /\ last.fatal # "mkdir" =>
        /\ OutputsPending = {"as_builts", "gis_files"} =>
               /\ Positions(GisEvents) # {} /\ Positions(AbEvents) # {}
               /\ \A i \in Positions(GisEvents), j \in Positions(AbEvents) : i < j
               /\ \A i \in Positions(GisEvents \cup AbEvents),
                     j \in Positions({"mark_fulfilled"}) : i < j
        /\ OutputsPending = {"as_builts"} =>
               Positions(AbEvents) # {} /\ Positions(GisEvents) = {}
        /\ OutputsPending = {"gis_files"} =>
               Positions(GisEvents) # {} /\ Positions(AbEvents) = {}

\* C14: the iteration for a record that requests layers only, and whose
\* Layer engine succeeds, writes FulfilledDate and then hands a GIS-only
\* message addressed to the record's email to the mail service
C14_LayersOnlyNotified ==
    ( /\ Iterated
      /\ last.fatal = "none"
      /\ RequestedOutputs(store[last.gid]) = {"gis_files"}
      /\ last.gis = "ok" ) =>
        /\ store[last.gid].FulfilledDate = runNo
        /\ \E m \in NotifiedRequester : m.kind = "gis_only"
        /\ \E i \in Positions({"mark_fulfilled"}), j \in Positions({"gis_email"}) : i < j

\* C15: of two records that a run processes one after the other, neither
\* iteration failing, the first was not created after the second
C15_OldestFirst ==
    [][ ( /\ Iterated /\ last.fatal = "none"
          /\ last'.gid \notin {0, last.gid} /\ last'.fatal = "none"
          /\ runNo' = runNo ) =>
            store[last.gid].CreationDate <= store[last'.gid].CreationDate ]_vars

\* C16: a record whose FulfilledDate was set when the run fetched is not
\* among the records of the run, is not iterated (no folder, no engine), has
\* its row as at the fetch, and no message of the run is about it
C16_FulfilledUntouched ==
    \A g \in RowIds :
        runNo >= 1 /\ runStart.store[g].FulfilledDate # NoDate =>
            /\ g \notin Range(queue)
            /\ last.gid # g
            /\ store[g] = runStart.store[g]
            /\ \A m \in sent \ runStart.sent : m.gid # g

C16_Witness ==
    /\ runNo = 2
    /\ pc = "done"
    /\ \E g \in RowIds : runStart.store[g].FulfilledDate = 1 /\ last.gid # g
    /\ Iterated
    /\ dirs # runStart.dirs

\* C17: the iteration for a record that requests documents only, and whose
\* Document engine succeeds, hands the engine the folder the resolver made,
\* which did not exist before; as_builts_fulfilled and FulfilledDate of the
\* record are set, its gis_files_fulfilled is null, and every other row is
\* as it was
C17_DocumentsOnlyWrites ==
    Iterated /\ RequestedOutputs(store[last.gid]) = {"as_builts"} /\ last.ab = "ok" =>
        /\ last.pdf_dir = last.folder
        /\ last.folder \in dirs \ last.dirsBefore
        /\ store[last.gid].as_builts_fulfilled = runNo
        /\ store[last.gid].FulfilledDate = runNo
        /\ store[last.gid].gis_files_fulfilled = NoDate
        /\ \A g \in RowIds \ {last.gid} : store[g] = last.storeBefore[g]

C17_Witness ==
    /\ Iterated
    /\ last.dispatch = "as_builts"
    /\ last.ab = "ok"
    /\ last.folder = <<"A", 2>>
    /\ \E g \in RowIds \ {last.gid} : store[g].gis_files_fulfilled # NoDate

\* the run was ended by an exception that left the per-record loop
Aborted == pc \in {"fatal", "crashed"}

\* C18: when an exception has left the per-record loop, the records still
\* in the queue are as they were at the fetch, one administrator message was
\* attempted, and its table, the ledger, has an entry for every error the
\* run recorded
C18_FatalFlushesLedger ==
    Aborted =>
        /\ \A g \in Range(queue) : store[g] = runStart.store[g]
        /\ Cardinality(Positions({"admin_email", "admin_email_error"})) = 1
        /\ pc = "fatal" =>
               \E m \in sent \ runStart.sent :
                   /\ m.kind = "error" /\ m.to = admin_email /\ m.table = errors
                   /\ {x \in sent \ runStart.sent : x.kind = "error"} = {m}
        /\ Cardinality(DOMAIN errors) = recorded

\* the email is an entry of the approved list, letter case apart
OnApprovedList(email) == \E a \in approved_emails : Lower(a) = Lower(email)

\* the messages of the Document engine in the iteration just made
DocumentMessages ==
    {m \in sent \ last.sentBefore :
        m.gid = last.gid /\ m.kind \in {"as_builts", "as_builts_and_gis", "unknown_requester"}}

\* C19: a fulfilled message of the Document engine goes to the record's
\* email and only when that email is on the approved list; when it is not,
\* the one message of the engine is the unknown-requester message, it goes
\* to the administrator and its table is the record
C19_NotificationRouting ==
    Iterated =>
        LET email == store[last.gid].email
        IN  /\ \A m \in DocumentMessages :
                   m.kind # "unknown_requester" => m.to = email /\ OnApprovedList(email)
            /\ ~OnApprovedList(email) =>
                   \A m \in DocumentMessages :
                       /\ m.kind = "unknown_requester"
                       /\ m.to = admin_email
                       /\ m.table = <<SurveyRecord(last.storeBefore[last.gid])>>
            /\ last.ab = "ok" => Cardinality(DocumentMessages) = 1

C19_Witness ==
    /\ Iterated
    /\ last.ab = "ok"
    /\ \E m \in DocumentMessages : m.kind = "unknown_requester"
    /\ \E m \in last.sentBefore : m.kind = "as_builts_and_gis" /\ m.to = "Ann@City.gov"

C21_LedgerAppendOnly ==
    Cardinality(DOMAIN errors) = recorded

\* the administrator messages of the run that carry the table of the ledger
AdminSummaries == {m \in sent \ runStart.sent : m.kind = "error" /\ m.to = admin_email}

\* C22: a run that came to its end with errors on the ledger has sent the
\* administrator a message with the table of the ledger
C22_ErrorsSurfacedAtEnd ==
    pc = "done" /\ recorded > 0 => AdminSummaries # {}

\* C23: an iteration in which an engine recorded an error, and no statement
\* of main.py raised, runs to its end and leaves the loop going: the run is
\* not aborted, and it ends only when the queue is empty
C23_EngineErrorKeepsLoop ==
    Iterated /\ (GisFailed \/ AbFailed) /\ last.fatal = "none" =>
        /\ last.events[Len(last.events)] = "release"
        /\ ~Aborted
        /\ pc = "done" => queue = <<>>
        /\ queue # <<>> => pc = "loop"

C23_Witness ==
    /\ Iterated
    /\ GisFailed
    /\ last.fatal = "none"
    /\ pc = "loop"
    /\ queue # <<>>

\* C24: when the administrator message of the top-level handler fails, the
\* handler still ends in its own way: no exception leaves it
C24_AdminMailFailureCaught ==
    Iterated /\ Positions({"admin_email_error"}) # {} => pc = "fatal"

\* the Document engine found no source directory in the iteration just made
NoSourceRoot == Iterated /\ last.ab = "nosrc"

\* the engine's part: one entry for the missing source directory, nothing
\* copied, as_builts_fulfilled as before, no message, and the iteration
\* goes on to its end; the Layer engine of the same record, when it ran
\* without an error of its own or before it, wrote gis_files_fulfilled
SourceRootFailureContained ==
    NoSourceRoot =>
        /\ \E k \in DOMAIN errors : errors[k] = "ab_source_directory"
        /\ recorded = last.recordedBefore + 1 + (IF GisFailed THEN 1 ELSE 0)
                                           + (IF last.fatal # "none" THEN 1 ELSE 0)
        /\ Positions({"ab_copy", "ab_index", "ab_mark", "ab_email"}) = {}
        /\ store[last.gid].as_builts_fulfilled = last.preA
        /\ DocumentMessages = {} /\ NotifiedRequester = {}
        /\ last.fatal = "none" => last.events[Len(last.events)] = "release" /\ ~Aborted
        /\ last.gis = "ok" /\ last.ecBefore = 0 => store[last.gid].gis_files_fulfilled = runNo

\* the next record of the run, when the missing source directory is the
\* only error of the run and nothing fails for that record, gets the writes
\* of its branch
NextRecordAsWithoutFailure ==
    ( /\ NoSourceRoot /\ last.fatal = "none" /\ recorded = 1
      /\ runNo' = runNo /\ last'.gid \notin {0, last.gid}
      /\ last'.fatal = "none" /\ last'.dispatch # "none"
      /\ last'.gis \in {"ok", "-"} /\ last'.ab \in {"ok", "-"} ) =>
        /\ store'[last'.gid].FulfilledDate = runNo
        /\ last'.gis = "ok" => store'[last'.gid].gis_files_fulfilled = runNo
        /\ last'.ab = "ok" => store'[last'.gid].as_builts_fulfilled = runNo

\* C27: a missing source directory is one ledger entry of the Document
\* engine and nothing else: no copy, no sub-status, no message, no
\* exception, and the Layer output of the record and the records after it
\* are processed as without it
C27_MissingSourceRoot ==
    []SourceRootFailureContained /\ [][NextRecordAsWithoutFailure]_vars

\* C28: the selection layer made for a record is deleted in the same
\* iteration on every path, the one that ends in the top-level handler
\* included
C28_SelectionReleased ==
    Iterated /\ Positions({"select"}) # {} => Positions({"release"}) # {}

\* C32: in a run error_counter is the number of errors recorded so far,
\* and no step of the run makes it smaller
C32_CounterCountsErrors ==
    [](error_counter = recorded)
    /\ [][runNo' = runNo => error_counter' >= error_counter]_vars

\* record i has just been processed
Processed(i) == Iterated /\ last.gid = i

\* the engines run for record i, when it has just been processed, ended
\* without an error
CleanFor(i) == Processed(i) => last.gis \in {"ok", "-"} /\ last.ab \in {"ok", "-"}

\* the row asks for an output the dispatch knows
RequestsRecognised(i) ==
    Range(SurveyRecord(store[i]).outputs_list) \cap {"as_builts", "gis_files"} # {}

NeverMarked(i) ==
    /\ store[i].FulfilledDate = NoDate
    /\ store[i].as_builts_fulfilled = NoDate
    /\ store[i].gis_files_fulfilled = NoDate

\* a run is under way or has ended, and row i was fetched by it
FetchedInRun(i) == pc \in {"loop", "done", "fatal", "crashed"} /\ i \in DOMAIN surveyData

\* the iteration just made has created its output folder and no other
OneNewFolder == last.folder \notin last.dirsBefore /\ dirs = last.dirsBefore \cup {last.folder}

DocumentMailFailed == Iterated /\ last.ab = "email"

\* the sub-status is written before the send is attempted and stays; the
\* error is in the ledger; FulfilledDate is left as it was, unset; the
\* record is pending for the next run
MailFailureAfterSubStatus ==
    DocumentMailFailed =>
        /\ \A p \in Positions({"ab_mark"}) : \A q \in Positions({"ab_error"}) : p < q
        /\ Positions({"ab_mark"}) # {} /\ Positions({"ab_email"}) = {}
        /\ store[last.gid].as_builts_fulfilled = runNo
        /\ recorded > last.recordedBefore
        /\ \E k \in DOMAIN errors : errors[k] = "ab_email"
        /\ Positions({"mark_fulfilled"}) = {}
        /\ store[last.gid].FulfilledDate = NoDate
        /\ last.gid \in Range(FetchPending(store))

\* row i was pending with its document sub-status set when the run started
\* and asks for documents
RetriedDocuments(i) ==
    /\ FetchedInRun(i)
    /\ runStart.store[i].as_builts_fulfilled # NoDate
    /\ "as_builts" \in Range(SurveyRecord(store[i]).outputs_list)

RunEnded == pc \in {"exited", "done", "fatal", "crashed"}

\* no record is in the loop's queue twice, and the records still to process
\* are fetched ones
ProcessedAtMostOnce ==
    /\ NoDuplicates(queue)
    /\ pc = "loop" => Range(queue) \subseteq DOMAIN surveyData
    /\ Iterated => last.gid \notin Range(queue)

\* the probing loop of the Output Folder Resolver has come to an end with a
\* name that did not exist
ResolverProbingEnds ==
    Iterated /\ last.fatal # "mkdir" => last.folder \notin last.dirsBefore

\* the probing loop of the Layer engine comes to an end, with a name that
\* does not exist, for every set of existing project folders
ProjectProbingEnds ==
    \A d \in SUBSET ExistingProjectFolders : ProbeProjectFolder(d, GisFiles, 1) \notin d

\* a step of the loop takes one record off the queue or ends the run
LoopStep ==
    pc = "loop" => \/ Len(queue') < Len(queue) /\ pc' \in {"loop", "fatal", "crashed"}
                   \/ queue = <<>> /\ pc' = "done"

\* C36: every run comes to an end, in normal completion or in the
\* top-level handler; no fetched record is processed twice in a run and
\* the two probing loops end
C36_RunTerminates ==
    /\ ProjectProbingEnds
    /\ [](ProcessedAtMostOnce /\ ResolverProbingEnds)
    /\ [][LoopStep]_vars
    /\ []<>(pc = "idle" \/ RunEnded)

C36_Witness ==
    /\ pc = "fatal" /\ runNo = 2 /\ queue # <<>>
    /\ Iterated /\ last.fatal = "delete"
    /\ Len(last.folder) = 2 /\ last.folder[2] >= 2

(***************************************************************************)
(* Properties of the working layer set (SpecLayers)                        *)
(***************************************************************************)
CategoryLayers(cat, piece) ==
    IF piece = "Water" THEN Range(cat.water)
    ELSE IF piece = "Sanitary" THEN Range(cat.sanitary)
    ELSE IF piece = "Storm" THEN Range(cat.storm)
    ELSE {}

\* C9: with "All" the working set is the whole catalog; otherwise it holds
\* the layers of the requested categories and no others, each once
C9_WorkingSetIsUnion ==
    lpc = "built" =>
        IF "All" \in Range(utilities)
        THEN layers_list = catalog.layers
        ELSE /\ Range(layers_list) = UNION {CategoryLayers(catalog, u) : u \in Range(utilities)}
             /\ NoDuplicates(layers_list)

\* C10: an empty utility selection gives the whole catalog
C10_EmptySelectionIsAll ==
    lpc = "built" /\ utilities = <<>> => layers_list = catalog.layers

\* two texts that differ only in letter case
SameUpToCase(t1, t2) == LowerAll(t1) = LowerAll(t2)

\* the record built from a row with the given utilities or outputs text
WithUtilities(text) == SurveyRecord([store[1] EXCEPT !.utilities = text])
WithOutputs(text) == SurveyRecord([store[1] EXCEPT !.desired_output = text])

OutputTexts == {<<>>, <<"as_builts">>, <<"AS_BUILTS">>, <<"Gis_Files">>, <<"gis_files">>,
                <<"AS_BUILTS", "Gis_Files">>, <<"as_builts", "gis_files">>}

\* C30: texts that differ only in letter case are parsed to the same set
\* and give the same dispatch, the same working layer set and the same
\* where clause; the empty text is parsed to the empty set
C30_CaseInsensitiveParsing ==
    lpc = "built" =>
        /\ \A t \in UtilityTexts :
              SameUpToCase(t, utilities) =>
                  /\ Range(WithUtilities(t).utilities_list)
                         = Range(WithUtilities(utilities).utilities_list)
                  /\ LayersList(catalog, WithUtilities(t).utilities_list) = layers_list
                  /\ WhereClause(WithUtilities(t).utilities_list)
                         = WhereClause(WithUtilities(utilities).utilities_list)
        /\ \A o1, o2 \in OutputTexts :
              SameUpToCase(o1, o2) =>
                  /\ Range(WithOutputs(o1).outputs_list) = Range(WithOutputs(o2).outputs_list)
                  /\ Dispatch(WithOutputs(o1).outputs_list) = Dispatch(WithOutputs(o2).outputs_list)
        /\ WithUtilities(<<>>).utilities_list = <<>>
        /\ WithOutputs(<<>>).outputs_list = <<>>

(***************************************************************************)
(* Properties of the Output Folder Resolver (SpecResolver)                 *)
(***************************************************************************)
\* the directories after the k-th call
ExistingAfter(k) == IF k < Len(rcalls) THEN rcalls[k + 1].existing ELSE dirs

\* the output root itself is what the empty name denotes
Existed(k, name) == name = <<"">> \/ name \in rcalls[k].existing

\* C6: the folder a call returns did not exist when the call was made and
\* exists after it
C6_ReturnedFolderIsNew ==
    \A k \in 1..Len(rcalls) :
        /\ ~Existed(k, rcalls[k].folder)
        /\ rcalls[k].folder \in ExistingAfter(k)

C6_Witness ==
    /\ rname = <<"">>
    /\ Len(rcalls) >= 2
    /\ rcalls[1].existing = {<<"", 1>>, <<"A">>}
    /\ rcalls[1].folder = <<"", 2>>

\* 0 for the unsuffixed name, k for name_k
SuffixOf(k) ==
    IF rcalls[k].folder = Strip(rname) THEN 0 ELSE rcalls[k].folder[Len(rcalls[k].folder)]

\* C7: each call returns the requested name when it is free and otherwise
\* name_j for the least j >= 1 that is free, and the suffixes of successive
\* calls for the same name increase strictly
C7_FirstFitIncreasing ==
    \A k \in 1..Len(rcalls) :
        LET j == SuffixOf(k)
        IN  /\ rcalls[k].folder = IF j = 0 THEN Strip(rname) ELSE Append(Strip(rname), j)
            /\ j = 0 <=> ~Existed(k, Strip(rname))
            /\ \A i \in 1..(j - 1) : Existed(k, Append(Strip(rname), i))
            /\ ~Existed(k, rcalls[k].folder)
            /\ k > 1 => SuffixOf(k - 1) < j

C7_Witness ==
    /\ Strip(rname) = <<"A">>
    /\ Len(rcalls) >= 3
    /\ rcalls[1].existing = {<<"A", 2>>}
    /\ rcalls[1].folder = <<"A">>
    /\ rcalls[2].folder = <<"A", 1>>
    /\ rcalls[3].folder = <<"A", 3>>

(***************************************************************************)
(* Properties of the copy loop and the manifest (SpecDocs)                 *)
(***************************************************************************)
Present(k) == PdfName(planAreaData[k]) \in source_files

\* C11: after the copy loop and the manifest, the row of each document
\* whose file is absent from the source directory has status 'Not found',
\* the row of each document whose file is there has status 'Included', and
\* pdfCount is the number of documents whose file is there
C11_MissingDocuments ==
    dpc = "indexed" =>
        /\ \A k \in 1..Len(planAreaData) :
               Status[k] = IF Present(k) THEN "Included" ELSE "Not found"
        /\ pdfCount = Cardinality({k \in 1..Len(planAreaData) : Present(k)})

(***************************************************************************)
(* Properties of the selection of plan areas (SpecSelect)                  *)
(***************************************************************************)
\* the request names "All", in any letter case
RequestsAll == \E i \in 1..Len(utilities) : Lower(utilities[i]) = "all"

\* C25: with "All" requested every intersecting plan area is selected;
\* otherwise every selected plan area is flagged 'Yes' in the column of a
\* requested utility
C25_SelectionFilter ==
    spc = "selected" =>
        IF RequestsAll
        THEN data_rows = plan_areas
        ELSE \A f \in data_rows :
                \E u \in Range(utilities) \cap FlagColumns : f[u] = "Yes"

(***************************************************************************)
(* Properties of the layer loop (SpecLayers)                               *)
(***************************************************************************)
\* C26: when one layer of the working set fails, every other layer of the
\* working set is clipped and exported
C26_LayerFailureSkipped ==
    lpc \in {"clipped", "raised"} /\ layer_fault.layer # None =>
        \A k \in 1..Len(layers_list) :
            layers_list[k] # layer_fault.layer => layers_list[k] \in Range(fc_output_names)

C31_ApprovedUpToCase ==
    membership.email # None =>
        ((\E a \in config_emails : Lower(a) = Lower(membership.email))
             => membership.approved)

====
